---- MODULE Spec2Model ----
(***************************************************************************)
(* Statement ingestion pipeline of the finance tracker: the CSV import     *)
(* dialog (field normalizers, header classifier, row processing, bulk      *)
(* request) and the server's bulk-import route with the storage layer's    *)
(* createTransaction.                                                      *)
(*                                                                         *)
(* Cell text is modelled by TLA+ strings, read character by character.     *)
(* Numbers are integers counting thousandths (1000 = 1.00), so that the    *)
(* two-decimal rounding of toFixed(2) is a real conversion.  A nullable    *)
(* result is a sequence: <<>> is null/undefined, <<v>> is the value v.     *)
(***************************************************************************)
EXTENDS Integers, Sequences, FiniteSets, TLC

(* ------------------------------ bounds --------------------------------- *)
\* longest amount string the normalizer specification enumerates
MaxLen == 3
\* most data rows of an uploaded file
MaxDataRows == 2
\* most transactions in one bulk request
MaxBatch == 2
\* most storage-layer failures injected in one run
MaxFaults == 1
\* lines of statement text in one parse request
MaxLines == 2
\* most cells of a first row the header classifier is applied to
MaxCols == 3
\* most presses of a Back button in one import session
MaxBack == 1

VARIABLES
    \* import dialog (React state of CSVImportDialog)
    step, csvData, headers, hasHeaders, mapping, selectedAccountId, parsedRows,
    \* the rows Papa.parse delivered for the uploaded file
    fileData,
    \* importMutation: isPending, and the body of the request it issued
    pending, request,
    \* whether the engine's legacy Date parser accepts free text with digits
    lenientDate,
    \* Back presses so far in this session
    backs,
    \* the open prop of the dialog (the page's importDialogOpen)
    open,
    \* server: per-request handler state of POST /api/transactions/bulk
    reqBody, pc, idx, imported, errors, account, lastError,
    \* server: the accounts row's balance and the transactions table
    balance, txTable, faults,
    \* field normalizer under test: input and output
    normIn, normOut

dialogVars == <<step, csvData, headers, hasHeaders, mapping, selectedAccountId,
                parsedRows, fileData, pending, request, lenientDate, backs, open>>
serverVars == <<reqBody, pc, idx, imported, errors, account, lastError,
                balance, txTable, faults>>
normVars == <<normIn, normOut>>
vars == <<dialogVars, serverVars, normVars>>

(* --------------------------- text helpers ------------------------------ *)
Null == <<>>
Range(f) == {f[i] : i \in DOMAIN f}
Some(v) == <<v>>

Digits == {"0", "1", "2", "3", "4", "5", "6", "7", "8", "9"}
DigitVal == [c \in Digits |-> CASE c = "0" -> 0 [] c = "1" -> 1 [] c = "2" -> 2
                                [] c = "3" -> 3 [] c = "4" -> 4 [] c = "5" -> 5
                                [] c = "6" -> 6 [] c = "7" -> 7 [] c = "8" -> 8
                                [] c = "9" -> 9]
\* the characters \s and String.prototype.trim treat as white space
WhiteSpace == {" ", "\t"}

CharAt(s, i) == SubSeq(s, i, i)
AllDigits(s) == \A i \in 1..Len(s) : CharAt(s, i) \in Digits
HasDigit(s) == \E i \in 1..Len(s) : CharAt(s, i) \in Digits

RECURSIVE TrimStart(_)
TrimStart(s) ==
    IF Len(s) > 0 /\ CharAt(s, 1) \in WhiteSpace THEN TrimStart(Tail(s)) ELSE s

RECURSIVE TrimEnd(_)
TrimEnd(s) ==
    IF Len(s) > 0 /\ CharAt(s, Len(s)) \in WhiteSpace
    THEN TrimEnd(SubSeq(s, 1, Len(s) - 1)) ELSE s

\* String.prototype.trim
Trim(s) == TrimEnd(TrimStart(s))

\* str.replace(/[chars]/g, "")
RECURSIVE RemoveChars(_, _)
RemoveChars(s, chars) ==
    IF Len(s) = 0 THEN ""
    ELSE IF CharAt(s, 1) \in chars THEN RemoveChars(Tail(s), chars)
    ELSE CharAt(s, 1) \o RemoveChars(Tail(s), chars)

\* position of the first c in s at or after from, 0 when there is none
RECURSIVE IndexFrom(_, _, _)
IndexFrom(s, c, from) ==
    IF from > Len(s) THEN 0
    ELSE IF CharAt(s, from) = c THEN from
    ELSE IndexFrom(s, c, from + 1)

\* length of the longest prefix of s made of digits
RECURSIVE DigitRun(_)
DigitRun(s) ==
    IF Len(s) > 0 /\ CharAt(s, 1) \in Digits THEN 1 + DigitRun(Tail(s)) ELSE 0

\* the decimal digits s read as a natural number
RECURSIVE DigitsToNat(_)
DigitsToNat(s) ==
    IF Len(s) = 0 THEN 0
    ELSE 10 * DigitsToNat(SubSeq(s, 1, Len(s) - 1)) + DigitVal[CharAt(s, Len(s))]

\* variant of PadStart2 that pads nothing
PadStart2_Keep(s) == s

\* String.prototype.padStart(2, "0")
PadStart2(s) == IF Len(s) < 2 THEN "0" \o s ELSE s

(* ------------------------- field normalizers --------------------------- *)
\* parseFloat: optional sign, digits, optional fraction; trailing text is
\* ignored; no digit at all gives NaN (Null).  Value in thousandths; the
\* exponent form and "Infinity" are outside the strings enumerated here.
ParseFloat(s) ==
    LET signed == Len(s) > 0 /\ CharAt(s, 1) \in {"-", "+"}
        neg == Len(s) > 0 /\ CharAt(s, 1) = "-"
        body == IF signed THEN Tail(s) ELSE s
        n == DigitRun(body)
        rest == SubSeq(body, n + 1, Len(body))
        hasDot == Len(rest) > 0 /\ CharAt(rest, 1) = "."
        m == IF hasDot THEN DigitRun(Tail(rest)) ELSE 0
        frac == IF hasDot THEN SubSeq(rest, 2, 1 + m) ELSE ""
        frac3 == SubSeq(frac \o "000", 1, 3)
        mag == 1000 * DigitsToNat(SubSeq(body, 1, n)) + DigitsToNat(frac3)
    IN IF n + m = 0 THEN Null
       ELSE Some(IF neg THEN 0 - mag ELSE mag)

\* str.replace(/\(([^)]+)\)/, "-$1"): the leftmost "(" followed by at least
\* one character other than ")" and then a ")"
RECURSIVE ParenToMinusFrom(_, _)
ParenToMinusFrom(s, from) ==
    LET p == IndexFrom(s, "(", from)
        q == IF p = 0 THEN 0 ELSE IndexFrom(s, ")", p + 1)
    IN IF p = 0 \/ q = 0 THEN s
       ELSE IF q = p + 1 THEN ParenToMinusFrom(s, p + 1)
       ELSE SubSeq(s, 1, p - 1) \o "-" \o SubSeq(s, p + 1, q - 1)
                \o SubSeq(s, q + 1, Len(s))

\* variant of ParenToMinus that leaves the text as it is
ParenToMinus_Keep(s) == s

ParenToMinus(s) == ParenToMinusFrom(s, 1)

StripSet == {"$", "£", "€", "¥", ",", " ", "\t"}

\* variant of parseAmount that treats a zero result as a failure
parseAmount_NoZero(amountStr) ==
    IF amountStr = Null THEN Null
    ELSE LET r == ParseFloat(ParenToMinus(RemoveChars(Trim(amountStr[1]), StripSet)))
         IN IF r = Some(0) THEN Null ELSE r

\* parseAmount(amountStr): amountStr is Null for undefined/null, else <<text>>
parseAmount(amountStr) ==
    IF amountStr = Null THEN Null
    ELSE LET str == Trim(amountStr[1])
         IN IF str = "" \/ str = "0" \/ str = "0.0" THEN Some(0)
            ELSE ParseFloat(ParenToMinus(RemoveChars(str, StripSet)))

\* s.match(/^(\d{4})-(\d{2})-(\d{2})/) on the first ten characters
IsoPrefix(s) ==
    /\ Len(s) >= 10
    /\ AllDigits(SubSeq(s, 1, 4)) /\ CharAt(s, 5) = "-"
    /\ AllDigits(SubSeq(s, 6, 7)) /\ CharAt(s, 8) = "-"
    /\ AllDigits(SubSeq(s, 9, 10))

\* s.match(/^(\d{1,2})\/(\d{1,2})\/(\d{4})$/): <<month, day, year>> or Null
MdyMatch(s) ==
    LET a == IndexFrom(s, "/", 1)
        b == IF a = 0 THEN 0 ELSE IndexFrom(s, "/", a + 1)
        mo == SubSeq(s, 1, a - 1)
        dy == SubSeq(s, a + 1, b - 1)
        yr == SubSeq(s, b + 1, Len(s))
    IN IF /\ a > 0 /\ b > 0
          /\ Len(mo) \in {1, 2} /\ AllDigits(mo)
          /\ Len(dy) \in {1, 2} /\ AllDigits(dy)
          /\ Len(yr) = 4 /\ AllDigits(yr)
       THEN Some(<<mo, dy, yr>>) ELSE Null

\* new Date(dateStr) followed by toISOString().split("T")[0], for text none
\* of the patterns matched.  What the engine accepts here is implementation
\* defined: text without a digit is never a date; text with a digit is one
\* exactly when the engine's legacy parser is lenient, and then the date it
\* reads is the engine's own.  (The cell texts used here that reach this
\* fallback are outside the standard date-time string format.)
DateObjectParse(s, lenient) ==
    IF lenient /\ HasDigit(s) THEN Some("2001-01-01") ELSE Null

\* parseDate(dateStr) under an engine whose legacy parser is lenient or not
parseDateWith(dateStr, lenient) ==
    IF dateStr = "" THEN Null
    ELSE IF IsoPrefix(dateStr) /\ Len(dateStr) >= 11 /\ CharAt(dateStr, 11) \in WhiteSpace
    THEN Some(SubSeq(dateStr, 1, 4) \o "-" \o SubSeq(dateStr, 6, 7) \o "-"
                \o SubSeq(dateStr, 9, 10))
    ELSE IF IsoPrefix(dateStr) /\ Len(dateStr) = 10
    THEN Some(SubSeq(dateStr, 1, 4) \o "-" \o SubSeq(dateStr, 6, 7) \o "-"
                \o SubSeq(dateStr, 9, 10))
    ELSE IF MdyMatch(dateStr) # Null
    THEN LET m == MdyMatch(dateStr)[1]
         IN Some(m[3] \o "-" \o PadStart2(m[1]) \o "-" \o PadStart2(m[2]))
    ELSE DateObjectParse(dateStr, lenient)

parseDate(dateStr) == parseDateWith(dateStr, lenientDate)

(* -------------------------- header classifier -------------------------- *)
UpperCase == "ABCDEFGHIJKLMNOPQRSTUVWXYZ"
LowerCase == "abcdefghijklmnopqrstuvwxyz"

LowerChar(c) ==
    IF \E i \in 1..26 : CharAt(UpperCase, i) = c
    THEN CharAt(LowerCase, CHOOSE i \in 1..26 : CharAt(UpperCase, i) = c)
    ELSE c

\* String.prototype.toLowerCase
RECURSIVE ToLower(_)
ToLower(s) == IF Len(s) = 0 THEN "" ELSE LowerChar(CharAt(s, 1)) \o ToLower(Tail(s))

\* String.prototype.includes
Includes(s, sub) ==
    \E i \in 1..(Len(s) - Len(sub) + 1) : SubSeq(s, i, i + Len(sub) - 1) = sub

\* /[A-Za-z]/.test(s)
HasLetter(s) ==
    \E i \in 1..Len(s) : \E j \in 1..26 : CharAt(LowerCase, j) = LowerChar(CharAt(s, i))

headerPatterns == {"timestamp", "date", "amount", "description", "merchant",
                   "transaction", "type", "status", "note", "memo", "currency"}

\* variant of detectIfHasHeaders that is content with one matching cell
detectIfHasHeaders_One(firstRow) ==
    Cardinality({i \in 1..Len(firstRow) :
                    \E p \in headerPatterns : Includes(ToLower(firstRow[i]), p)}) >= 1

\* detectIfHasHeaders(firstRow): two or more cells match a header pattern
detectIfHasHeaders(firstRow) ==
    Cardinality({i \in 1..Len(firstRow) :
                    \E p \in headerPatterns : Includes(ToLower(firstRow[i]), p)}) >= 2

\* generateColumnNames(count)
generateColumnNames(count) == [i \in 1..count |-> "Column " \o ToString(i)]

\* headerRow.map((h, i) => h?.trim() ? h.trim() : `Column ${i + 1}`)
SanitizeHeaders(headerRow) ==
    [i \in 1..Len(headerRow) |->
        IF Trim(headerRow[i]) # "" THEN Trim(headerRow[i]) ELSE "Column " \o ToString(i)]

\* row.some((cell) => cell?.trim())
RowHasText(row) == \E i \in 1..Len(row) : Trim(row[i]) # ""

\* variant of NonBlankRows that keeps every row
NonBlankRows_All(rows) == rows

NonBlankRows(rows) == SelectSeq(rows, RowHasText)

EmptyMapping == [date |-> "", description |-> "", amount |-> "", category |-> ""]

DateWords == {"date", "timestamp", "posted"}
DescriptionWords == {"description", "memo", "merchant", "payee"}
AmountWords == {"amount", "debit", "credit"}
CategoryWords == {"category", "type"}

\* variant of MapByHeader in which a later matching header replaces the role
RECURSIVE MapByHeader_LastWins(_, _, _)
MapByHeader_LastWins(headerRow, i, m) ==
    IF i > Len(headerRow) THEN m
    ELSE LET header == headerRow[i]
             headerLower == Trim(ToLower(header))
             Hit(words) == \E w \in words : Includes(headerLower, w)
             m1 == IF Hit(DateWords) THEN [m EXCEPT !.date = header] ELSE m
             m2 == IF Hit(DescriptionWords) THEN [m1 EXCEPT !.description = header] ELSE m1
             m3 == IF Hit(AmountWords) THEN [m2 EXCEPT !.amount = header] ELSE m2
             m4 == IF Hit(CategoryWords) THEN [m3 EXCEPT !.category = header] ELSE m3
         IN MapByHeader_LastWins(headerRow, i + 1, m4)

\* one pass of headerRow.forEach: a role already assigned is kept
RECURSIVE MapByHeader(_, _, _)
MapByHeader(headerRow, i, m) ==
    IF i > Len(headerRow) THEN m
    ELSE LET header == headerRow[i]
             headerLower == Trim(ToLower(header))
             Hit(words) == \E w \in words : Includes(headerLower, w)
             m1 == IF Hit(DateWords) /\ m.date = ""
                   THEN [m EXCEPT !.date = header] ELSE m
             m2 == IF Hit(DescriptionWords) /\ m1.description = ""
                   THEN [m1 EXCEPT !.description = header] ELSE m1
             m3 == IF Hit(AmountWords) /\ m2.amount = ""
                   THEN [m2 EXCEPT !.amount = header] ELSE m2
             m4 == IF Hit(CategoryWords) /\ m3.category = ""
                   THEN [m3 EXCEPT !.category = header] ELSE m3
         IN MapByHeader(headerRow, i + 1, m4)

\* /^-?\d+\.?\d*$/.test(s)
LooksNumeric(s) ==
    LET body == IF Len(s) > 0 /\ CharAt(s, 1) = "-" THEN Tail(s) ELSE s
        n == DigitRun(body)
        rest == SubSeq(body, n + 1, Len(body))
        rest2 == IF Len(rest) > 0 /\ CharAt(rest, 1) = "." THEN Tail(rest) ELSE rest
    IN n >= 1 /\ AllDigits(rest2)

\* one pass of sampleRow.forEach for a file without a header row
RECURSIVE MapBySample(_, _, _, _, _)
MapBySample(sampleRow, headerRow, i, m, lenient) ==
    IF i > Len(sampleRow) THEN m
    ELSE LET trimmed == Trim(sampleRow[i])
             name == IF i <= Len(headerRow) THEN headerRow[i] ELSE ""
             m1 == IF m.date = "" /\ parseDateWith(trimmed, lenient) # Null
                   THEN [m EXCEPT !.date = name] ELSE m
             m2 == IF /\ m1.amount = ""
                      /\ LooksNumeric(RemoveChars(trimmed, {"$", ","}))
                      /\ ~HasLetter(trimmed)
                   THEN [m1 EXCEPT !.amount = name] ELSE m1
         IN MapBySample(sampleRow, headerRow, i + 1, m2, lenient)

\* the autoMapping processCSV computes
AutoMapping(headerRow, dataRows, detected, lenient) ==
    LET m1 == MapByHeader(headerRow, 1, EmptyMapping)
        m2 == IF ~detected /\ Len(dataRows) > 0
              THEN MapBySample(dataRows[1], headerRow, 1, m1, lenient) ELSE m1
    IN IF ~detected /\ Len(dataRows) > 0 /\ m2.description = "" /\ Len(headerRow) >= 4
       THEN [m2 EXCEPT !.description = headerRow[Len(headerRow)]] ELSE m2

(* ---------------------------- cell texts ------------------------------- *)
\* first rows that read as a header row
HeaderRowPool == << <<"Date", "Description", "Amount">>,
                    <<" Date", "", "Amount">> >>

\* data rows as Papa.parse delivers them; <<"">> is a blank line
DataRowPool == << <<"2026-01-07 11:14:23", "Coffee Shop", "-4.50">>,
                  <<"bad", "Books", "(100.00)">>,
                  <<"1/8/2026", "Paycheck", "$2,500.00">>,
                  <<"2026-01-10", "Hold", "0.0">>,
                  <<"">>,
                  <<"2026-01-11", "Fee", "">>,
                  <<"x", " ", "abc">> >>

\* runs of at most MaxDataRows consecutive pool rows
DataWindows ==
    {SubSeq(DataRowPool, w[1], w[1] + w[2] - 1) :
        w \in {v \in (1..Len(DataRowPool)) \X (0..MaxDataRows) :
                    v[1] + v[2] - 1 <= Len(DataRowPool)}}

\* the parsed files a user may upload: with or without a header row
Files ==
    {h \o w : h \in {<<>>} \cup {<<HeaderRowPool[i]>> : i \in 1..Len(HeaderRowPool)},
              w \in DataWindows}


\* every text a cell or a header can hold, and its trimmed form
WidestRow ==
    LET lens == {Len(HeaderRowPool[i]) : i \in 1..Len(HeaderRowPool)}
                \cup {Len(DataRowPool[i]) : i \in 1..Len(DataRowPool)}
    IN CHOOSE n \in lens : \A m \in lens : m <= n
CellText ==
    LET raw == UNION {Range(HeaderRowPool[i]) : i \in 1..Len(HeaderRowPool)}
               \cup UNION {Range(DataRowPool[i]) : i \in 1..Len(DataRowPool)}
               \cup {"Column " \o ToString(i) : i \in 1..WidestRow} \cup {""}
    IN raw \cup {Trim(c) : c \in raw}

\* Trim, parseDate and parseAmount tabulated over the cell texts
TrimOf == [c \in CellText |-> Trim(c)]
DateOf == [l \in BOOLEAN |-> [c \in CellText |-> parseDateWith(c, l)]]
AmountOf == [c \in CellText |-> parseAmount(Some(c))]

TrimCell(c) == IF c \in CellText THEN TrimOf[c] ELSE Trim(c)
DateCell(c, lenient) ==
    IF c \in CellText THEN DateOf[lenient][c] ELSE parseDateWith(c, lenient)
AmountCell(c) == IF c \in CellText THEN AmountOf[c] ELSE parseAmount(Some(c))

(* ----------------------------- row processing -------------------------- *)
\* headers.indexOf(name), 1-based; 0 stands for -1
IndexOf(hs, name) ==
    IF \E i \in 1..Len(hs) : hs[i] = name
    THEN CHOOSE i \in 1..Len(hs) : hs[i] = name /\ \A j \in 1..(i - 1) : hs[j] # name
    ELSE 0

\* row[i]?.trim() || ""
CellAt(row, i) == IF i \in 1..Len(row) THEN TrimCell(row[i]) ELSE ""

\* errors.join(", ")
RECURSIVE Join(_)
Join(reasons) ==
    IF Len(reasons) = 0 THEN ""
    ELSE IF Len(reasons) = 1 THEN reasons[1]
    ELSE reasons[1] \o ", " \o Join(Tail(reasons))

\* variant of RowErrors without the date check
RowErrors_NoDateCheck(date, descStr, amount) ==
    (IF descStr = "" THEN <<"Missing description">> ELSE <<>>)
    \o (IF amount = Null THEN <<"Invalid amount">> ELSE <<>>)

\* the reasons pushed for one row, in the order of the three checks
RowErrors(date, descStr, amount) ==
    (IF date = Null THEN <<"Invalid date">> ELSE <<>>)
    \o (IF descStr = "" THEN <<"Missing description">> ELSE <<>>)
    \o (IF amount = Null THEN <<"Invalid amount">> ELSE <<>>)

\* the body of csvData.map((row) => ...) in handleMappingComplete
ParseRow(row, hs, m, lenient) ==
    LET dateIdx == IndexOf(hs, m.date)
        descIdx == IndexOf(hs, m.description)
        amountIdx == IndexOf(hs, m.amount)
        categoryIdx == IF m.category # "" THEN IndexOf(hs, m.category) ELSE 0
        dateStr == CellAt(row, dateIdx)
        descStr == CellAt(row, descIdx)
        amountStr == CellAt(row, amountIdx)
        categoryStr == IF categoryIdx >= 1 THEN CellAt(row, categoryIdx) ELSE ""
        date == DateCell(dateStr, lenient)
        amount == AmountCell(amountStr)
        errs == RowErrors(date, descStr, amount)
    IN [date |-> IF date # Null THEN date[1] ELSE dateStr,
        description |-> descStr,
        amount |-> IF amount # Null THEN amount[1] ELSE 0,
        category |-> IF categoryStr # "" THEN categoryStr ELSE "Other",
        isValid |-> Len(errs) = 0,
        error |-> IF Len(errs) > 0 THEN Some(Join(errs)) ELSE Null]

\* variant of KeepRow that drops every zero-amount row
KeepRow_NonZero(row) == row.amount # 0

\* parsed.filter(row => row.amount !== 0 || !row.isValid)
KeepRow(row) == row.amount # 0 \/ ~row.isValid

\* variant of ProcessRows that keeps the candidates of an earlier Continue
ProcessRows_KeepEarlier(rows, hs, m, lenient) ==
    parsedRows \o SelectSeq([i \in 1..Len(rows) |-> ParseRow(rows[i], hs, m, lenient)], KeepRow)

\* handleMappingComplete: csvData.map(...) and the zero-amount filter
ProcessRows(rows, hs, m, lenient) ==
    SelectSeq([i \in 1..Len(rows) |-> ParseRow(rows[i], hs, m, lenient)], KeepRow)

IsValidRow(row) == row.isValid
IsInvalidRow(row) == ~row.isValid

\* validCount / invalidCount
validCount == Len(SelectSeq(parsedRows, IsValidRow))
invalidCount == Len(SelectSeq(parsedRows, IsInvalidRow))

\* parseInt(selectedAccountId)
ParseInt(s) == DigitsToNat(SubSeq(s, 1, DigitRun(s)))

\* variant of ToTransaction that files every row as an expense
ToTransaction_AllExpense(row, accountId) ==
    [accountId |-> ParseInt(accountId),
     description |-> row.description,
     amount |-> row.amount,
     category |-> "expense",
     subcategory |-> row.category,
     date |-> row.date]

\* one element of the transactions array importMutation.mutationFn builds;
\* amount stays the number row.amount.toString() writes out
ToTransaction(row, accountId) ==
    [accountId |-> ParseInt(accountId),
     description |-> row.description,
     amount |-> row.amount,
     category |-> IF row.amount < 0 THEN "expense" ELSE "income",
     subcategory |-> row.category,
     date |-> row.date]

\* variant of RowsToSend without the validity filter
RowsToSend_All(rows) == rows

\* the rows mutationFn keeps: parsedRows.filter((r) => r.isValid)
RowsToSend(rows) == SelectSeq(rows, IsValidRow)

BuildTransactions(rows, accountId) ==
    LET validRows == RowsToSend(rows)
    IN [i \in 1..Len(validRows) |-> ToTransaction(validRows[i], accountId)]

(* ------------------------------ uploads -------------------------------- *)
\* processCSV(data, true) for a non-empty data: the four states it sets
processCSV(data, lenient) ==
    LET firstRow == data[1]
        detectedHasHeaders == detectIfHasHeaders(firstRow)
        headerRow == IF detectedHasHeaders THEN firstRow
                     ELSE generateColumnNames(Len(firstRow))
        dataRows == IF detectedHasHeaders THEN Tail(data) ELSE data
    IN [hasHeaders |-> detectedHasHeaders,
        headers |-> SanitizeHeaders(headerRow),
        csvData |-> NonBlankRows(dataRows),
        mapping |-> AutoMapping(headerRow, dataRows, detectedHasHeaders, lenient)]

\* processCSV tabulated over the uploads, per engine
UploadOf == [l \in BOOLEAN |-> [data \in Files \ {<<>>} |-> processCSV(data, l)]]

\* ids of the accounts offered in the account select (filteredAccounts)
AccountIds == {"1"}

Steps == {"upload", "mapping", "preview", "complete"}
Roles == {"date", "description", "amount", "category"}

(* --------------------------- import dialog ----------------------------- *)
DialogInit ==
    /\ step = "upload"
    /\ csvData = <<>>
    /\ headers = <<>>
    /\ hasHeaders = TRUE
    /\ mapping = EmptyMapping
    /\ selectedAccountId = ""
    /\ parsedRows = <<>>
    /\ fileData = <<>>
    /\ pending = FALSE
    /\ request = <<>>
    /\ backs = 0
    /\ open = TRUE

\* handleFileUpload, Papa.parse complete callback, with processCSV(data, true)
handleFileUpload(data) ==
    /\ open
    /\ step = "upload"
    /\ fileData' = data
    /\ request' = <<>>
    /\ IF Len(data) > 0
       THEN LET r == UploadOf[lenientDate][data]
            IN /\ hasHeaders' = r.hasHeaders
               /\ headers' = r.headers
               /\ csvData' = r.csvData
               /\ mapping' = r.mapping
               /\ step' = "mapping"
       ELSE UNCHANGED <<hasHeaders, headers, csvData, mapping, step>>
    /\ UNCHANGED <<selectedAccountId, parsedRows, pending, lenientDate, backs, open>>

\* handleHeaderToggle(checked)
handleHeaderToggle(checked) ==
    /\ open
    /\ step = "mapping"
    /\ hasHeaders' = checked
    /\ LET allData == IF hasHeaders THEN <<headers>> \o csvData ELSE csvData
           first == IF Len(allData) > 0 THEN allData[1] ELSE <<>>
       IN IF checked
          THEN /\ headers' = SanitizeHeaders(first)
               /\ csvData' = IF Len(allData) > 0 THEN Tail(allData) ELSE <<>>
          ELSE /\ headers' = generateColumnNames(Len(first))
               /\ csvData' = allData
    /\ mapping' = EmptyMapping
    /\ request' = <<>>
    /\ UNCHANGED <<step, selectedAccountId, parsedRows, fileData, pending, lenientDate, backs, open>>

\* the columns the user picks from in each select (0 is the item "None")
ColumnChoices == [date |-> {1}, description |-> {2}, amount |-> {3},
                  category |-> {0, 2}]

\* the select items behind those picks: header names, "" for "None"
SelectChoices(role) ==
    {IF i = 0 THEN "" ELSE headers[i] : i \in ColumnChoices[role] \cap (0..Len(headers))}

\* onValueChange of a column select: the items are the current headers, and
\* "__none__" (stored as "") for the optional category
setMapping(role, v) ==
    /\ open
    /\ step = "mapping"
    /\ v \in Range(headers) \/ (role = "category" /\ v = "")
    /\ mapping' = [mapping EXCEPT ![role] = v]
    /\ request' = <<>>
    /\ UNCHANGED <<step, csvData, headers, hasHeaders, selectedAccountId, parsedRows,
                   fileData, pending, lenientDate, backs, open>>

\* onValueChange of the account select
setSelectedAccountId(v) ==
    /\ open
    /\ step = "mapping"
    /\ selectedAccountId' = v
    /\ request' = <<>>
    /\ UNCHANGED <<step, csvData, headers, hasHeaders, mapping, parsedRows,
                   fileData, pending, lenientDate, backs, open>>

\* Back button of the mapping step
backToUpload ==
    /\ open
    /\ step = "mapping"
    /\ step' = "upload"
    /\ backs < MaxBack
    /\ backs' = backs + 1
    /\ request' = <<>>
    /\ UNCHANGED <<csvData, headers, hasHeaders, mapping, selectedAccountId,
                   parsedRows, fileData, pending, lenientDate, open>>

\* variant of MappingReady that does not ask for an account
MappingReady_NoAccount(m, acct) ==
    m.date # "" /\ m.description # "" /\ m.amount # ""

\* the guard of handleMappingComplete
MappingReady(m, acct) ==
    m.date # "" /\ m.description # "" /\ m.amount # "" /\ acct # ""

\* handleMappingComplete (Continue)
handleMappingComplete ==
    /\ open
    /\ step = "mapping"
    /\ request' = <<>>
    /\ IF ~MappingReady(mapping, selectedAccountId)
       THEN UNCHANGED <<step, parsedRows>>
       ELSE /\ parsedRows' = ProcessRows(csvData, headers, mapping, lenientDate)
            /\ step' = "preview"
    /\ UNCHANGED <<csvData, headers, hasHeaders, mapping, selectedAccountId,
                   fileData, pending, lenientDate, backs, open>>

\* Back button of the preview step
backToMapping ==
    /\ open
    /\ step = "preview"
    /\ step' = "mapping"
    /\ backs < MaxBack
    /\ backs' = backs + 1
    /\ request' = <<>>
    /\ UNCHANGED <<csvData, headers, hasHeaders, mapping, selectedAccountId,
                   parsedRows, fileData, pending, lenientDate, open>>

\* variant of ImportShown that also renders the button in the mapping step
ImportShown_Mapping(s) == s \in {"mapping", "preview"}

\* the Import button is rendered in the preview step only
ImportShown(s) == s = "preview"

\* variant of ImportDisabled that does not look at the valid count
ImportDisabled_PendingOnly(count, isPending) == isPending

\* variant of ImportDisabled that does not look at the pending request
ImportDisabled_EmptyOnly(count, isPending) == count = 0

\* disabled={validCount === 0 || importMutation.isPending}
ImportDisabled(count, isPending) == count = 0 \/ isPending

\* Import button: importMutation.mutate() runs mutationFn
importMutate ==
    /\ open
    /\ ImportShown(step)
    /\ ~ImportDisabled(validCount, pending)
    /\ pending' = TRUE
    /\ request' = BuildTransactions(parsedRows, selectedAccountId)
    /\ UNCHANGED <<step, csvData, headers, hasHeaders, mapping, selectedAccountId,
                   parsedRows, fileData, lenientDate, backs, open>>

\* importMutation.onSuccess
importOnSuccess ==
    /\ pending
    /\ pending' = FALSE
    /\ step' = "complete"
    /\ request' = <<>>
    /\ UNCHANGED <<csvData, headers, hasHeaders, mapping, selectedAccountId,
                   parsedRows, fileData, lenientDate, backs, open>>

\* importMutation.onError
importOnError ==
    /\ pending
    /\ pending' = FALSE
    /\ request' = <<>>
    /\ UNCHANGED <<step, csvData, headers, hasHeaders, mapping, selectedAccountId,
                   parsedRows, fileData, lenientDate, backs, open>>

\* resetState
resetState ==
    /\ step' = "upload"
    /\ csvData' = <<>>
    /\ headers' = <<>>
    /\ hasHeaders' = TRUE
    /\ mapping' = EmptyMapping
    /\ selectedAccountId' = ""
    /\ parsedRows' = <<>>

\* Dialog onOpenChange(false): the dialog is dismissed (Escape, a click
\* outside, the X of the dialog)
dismissDialog ==
    /\ open
    /\ resetState
    /\ open' = FALSE
    /\ request' = <<>>
    /\ UNCHANGED <<fileData, pending, lenientDate, backs>>

\* Close button of the complete step: the page's onOpenChange(false)
closeComplete ==
    /\ open
    /\ step = "complete"
    /\ open' = FALSE
    /\ request' = <<>>
    /\ UNCHANGED <<step, csvData, headers, hasHeaders, mapping, selectedAccountId,
                   parsedRows, fileData, pending, lenientDate, backs>>

\* the page's Import Statement button: setImportDialogOpen(true)
openDialog ==
    /\ ~open
    /\ open' = TRUE
    /\ request' = <<>>
    /\ UNCHANGED <<step, csvData, headers, hasHeaders, mapping, selectedAccountId,
                   parsedRows, fileData, pending, lenientDate, backs>>

(* --------------------- storage layer and bulk route -------------------- *)
\* the two requests that may be in progress at once
Batches == {1, 2}

\* the account every modelled transaction belongs to, and its opening balance
AccountId == 1
InitialBalance == 143200

\* InsertTransaction bodies a client may post (amounts -12.50 and 4.506)
TxPool == << [account_id |-> AccountId, description |-> "Coffee Shop",
              amount |-> 0 - 12500, category |-> "expense",
              subcategory |-> "Other", date |-> "2026-01-07"],
             [account_id |-> AccountId, description |-> "Paycheck",
              amount |-> 4506, category |-> "income",
              subcategory |-> "Other", date |-> "2026-01-08"] >>

\* request bodies: at most MaxBatch transactions, taken from the pool in
\* turn starting at any of them
Requests ==
    {[i \in 1..n |-> TxPool[((start + i - 2) % Len(TxPool)) + 1]] :
        start \in 1..Len(TxPool), n \in 0..MaxBatch}

\* Number.prototype.toFixed(2): the nearest hundredth, the larger one on a tie
ToFixed2(x) ==
    LET r == x % 10
    IN IF r >= 5 THEN x - r + 10 ELSE x - r

\* a numeric(12, 2) column stores the nearest hundredth, ties away from zero
Numeric2(x) ==
    IF x >= 0 THEN ToFixed2(x) ELSE 0 - ToFixed2(0 - x)

\* what the storage layer throws when a query returns an error: the client
\* library's error object, an Error instance or a plain object with a message
\* depending on the library build
InsertError == {[message |-> "insert failed", instanceOfError |-> i] : i \in BOOLEAN}
SelectError == {[message |-> "select failed", instanceOfError |-> i] : i \in BOOLEAN}
UpdateError == {[message |-> "update failed", instanceOfError |-> i] : i \in BOOLEAN}

\* err instanceof Error ? err.message : "Invalid data"
ErrorText(err) == IF err.instanceOfError THEN err.message ELSE "Invalid data"

\* errors.push({ index: i, error: ... })
ErrorEntry(i, err) == [index |-> i, error |-> ErrorText(err)]

\* the loop's i++ and its test i < transactions.length
NextPc(b) == IF idx[b] + 1 < Len(reqBody[b]) THEN "insert" ELSE "done"

\* the catch clause of the loop body, then the next iteration
CatchRow(b, err) ==
    /\ lastError' = [lastError EXCEPT ![b] = Some(err)]
    /\ errors' = [errors EXCEPT ![b] = Append(@, ErrorEntry(idx[b], err))]
    /\ idx' = [idx EXCEPT ![b] = @ + 1]
    /\ pc' = [pc EXCEPT ![b] = NextPc(b)]

\* the same for a failure of the storage layer injected by the run
CatchAndContinue(b, err) ==
    /\ CatchRow(b, err)
    /\ faults' = faults + 1

\* the transaction the loop is at: transactions[i]
CurrentTx(b) == reqBody[b][idx[b] + 1]

\* variant of NewBalance that starts from the opening balance each time
NewBalance_FromInitial(acct, transaction) == ToFixed2(InitialBalance + transaction.amount)

\* the new balance createTransaction computes from the account it read
NewBalance(acct, transaction) == ToFixed2(acct.balance + transaction.amount)

ServerInit ==
    /\ pc = [b \in Batches |-> "idle"]
    /\ idx = [b \in Batches |-> 0]
    /\ imported = [b \in Batches |-> <<>>]
    /\ errors = [b \in Batches |-> <<>>]
    /\ account = [b \in Batches |-> Null]
    /\ lastError = [b \in Batches |-> Null]
    /\ balance = InitialBalance
    /\ txTable = <<>>
    /\ faults = 0

\* POST /api/transactions/bulk: the body check before the loop
bulkReceive(b) ==
    /\ pc[b] = "idle"
    /\ pc' = [pc EXCEPT ![b] = IF Len(reqBody[b]) = 0 THEN "rejected" ELSE "insert"]
    /\ UNCHANGED <<reqBody, idx, imported, errors, account, lastError, balance,
                   txTable, faults>>

\* the transactions table has the NOT NULL column account_id and no column
\* of another spelling: a body is a row of the table only with that key
HasAccountColumn(transaction) == "account_id" \in DOMAIN transaction

\* createTransaction: the insert succeeds
createTransactionInsert(b) ==
    /\ pc[b] = "insert"
    /\ HasAccountColumn(CurrentTx(b))
    /\ txTable' = Append(txTable,
                         [id |-> Len(txTable) + 1,
                          account_id |-> CurrentTx(b).account_id,
                          description |-> CurrentTx(b).description,
                          amount |-> Numeric2(CurrentTx(b).amount)])
    /\ pc' = [pc EXCEPT ![b] = "getAccount"]
    /\ UNCHANGED <<reqBody, idx, imported, errors, account, lastError, balance, faults>>

\* createTransaction: the insert returns an error, which is thrown
createTransactionInsertError(b) ==
    /\ pc[b] = "insert"
    /\ faults < MaxFaults
    /\ \E err \in InsertError : CatchAndContinue(b, err)
    /\ UNCHANGED <<reqBody, imported, account, balance, txTable>>

\* createTransaction: the insert of a body without account_id returns an
\* error, which is thrown
createTransactionInsertRejected(b) ==
    /\ pc[b] = "insert"
    /\ ~HasAccountColumn(CurrentTx(b))
    /\ \E err \in InsertError : CatchRow(b, err)
    /\ UNCHANGED <<reqBody, imported, account, balance, txTable, faults>>

\* createTransaction: getAccount returns the account row
createTransactionGetAccount(b) ==
    /\ pc[b] = "getAccount"
    /\ account' = [account EXCEPT ![b] =
                      IF CurrentTx(b).account_id = AccountId
                      THEN Some([id |-> AccountId, balance |-> balance]) ELSE Null]
    /\ pc' = [pc EXCEPT ![b] = "updateAccount"]
    /\ UNCHANGED <<reqBody, idx, imported, errors, lastError, balance, txTable, faults>>

\* createTransaction: getAccount throws
createTransactionGetAccountError(b) ==
    /\ pc[b] = "getAccount"
    /\ faults < MaxFaults
    /\ \E err \in SelectError : CatchAndContinue(b, err)
    /\ UNCHANGED <<reqBody, imported, account, balance, txTable>>

\* createTransaction: updateAccount writes the new balance (when an account
\* was read), the row is returned and pushed on imported
createTransactionUpdate(b) ==
    /\ pc[b] = "updateAccount"
    /\ balance' = IF account[b] # Null
                  THEN NewBalance(account[b][1], CurrentTx(b)) ELSE balance
    /\ imported' = [imported EXCEPT ![b] = Append(@, CurrentTx(b))]
    /\ idx' = [idx EXCEPT ![b] = @ + 1]
    /\ pc' = [pc EXCEPT ![b] = NextPc(b)]
    /\ UNCHANGED <<reqBody, errors, account, lastError, txTable, faults>>

\* createTransaction: updateAccount throws
createTransactionUpdateError(b) ==
    /\ pc[b] = "updateAccount"
    /\ account[b] # Null
    /\ faults < MaxFaults
    /\ \E err \in UpdateError : CatchAndContinue(b, err)
    /\ UNCHANGED <<reqBody, imported, account, balance, txTable>>

\* the 201 response body
Response(b) == [imported |-> Len(imported[b]), errors |-> Len(errors[b]),
                details |-> IF Len(errors[b]) > 0 THEN Some(errors[b]) ELSE Null]

(* --------------------------- normalizer runs --------------------------- *)
AmountAlphabet == {"0", "1", ".", "-", "(", ")", "$", ",", " ", "a"}

RECURSIVE StringsUpTo(_, _)
StringsUpTo(alphabet, n) ==
    IF n = 0 THEN {""}
    ELSE LET shorter == StringsUpTo(alphabet, n - 1)
         IN shorter \cup {s \o c : s \in shorter, c \in alphabet}

\* amount texts as statements print them
AmountExamples == {"(100.00)", "100.00", "-100.00", "$2,500.00", "($1,250.5)", " (7) "}

\* arguments of parseAmount: undefined/null, or a string
AmountInputs ==
    {Null} \cup {Some(s) : s \in StringsUpTo(AmountAlphabet, MaxLen) \cup AmountExamples}

NormInit ==
    /\ normIn = Null
    /\ normOut = Null

\* one call of parseAmount; normOut holds <<result>>
applyParseAmount ==
    /\ normOut = Null
    /\ normOut' = Some(parseAmount(normIn))
    /\ UNCHANGED normIn

\* date texts: year, month and day written in each of the layouts a
\* statement uses, with and without a time, and texts that are no date
DateInputs ==
    LET ymd == {<<y, m, d>> : y \in {"2026"}, m \in {"1", "01", "13"},
                              d \in {"8", "08", "31"}}
    IN UNION {{p[1] \o "-" \o p[2] \o "-" \o p[3],
               p[1] \o "-" \o p[2] \o "-" \o p[3] \o " 11:14:23",
               p[2] \o "/" \o p[3] \o "/" \o p[1],
               p[2] \o "/" \o p[3] \o "/" \o p[1] \o " 11:14",
               p[2] \o "-" \o p[3] \o "-" \o p[1]} : p \in ymd}
       \cup {"", "bad", "Jan 8", "20260108"}

\* one call of parseDate; normOut holds <<result>>
applyParseDate ==
    /\ normOut = Null
    /\ normOut' = Some(parseDate(normIn[1]))
    /\ UNCHANGED normIn

\* parseDate called on the date the first call returned; normOut holds both
\* results
applyParseDateAgain ==
    /\ Len(normOut) = 1 /\ normOut[1] # Null
    /\ normOut' = Append(normOut, parseDate(normOut[1][1]))
    /\ UNCHANGED normIn

\* texts of a first-row cell: names with a keyword, names without, blank
HeaderCells == {"Date", "Posted Date", " Memo ", "AMOUNT", "Type", "A", ""}

\* first rows of at most n cells
RECURSIVE RowsUpTo(_, _)
RowsUpTo(cells, n) ==
    IF n = 0 THEN {<<>>}
    ELSE LET shorter == RowsUpTo(cells, n - 1)
         IN shorter \cup {Append(r, c) : r \in shorter, c \in cells}

HeaderExamples == {<<"Date", "Description", "Amount">>, <<"A", "B", "C">>}

\* the rows that follow the first row of an uploaded file
FileTails == {<<>>, << <<"">>, <<"2026-01-07", "Coffee Shop", "-4.50">> >>}

\* parsed files whose first row is drawn from the header cells
HeaderFiles ==
    {<<first>> \o rest :
        first \in (RowsUpTo(HeaderCells, MaxCols) \ {<<>>}) \cup HeaderExamples,
        rest \in FileTails}

\* processCSV(data, true) for one parsed file; normOut holds <<result>>
applyProcessCSV ==
    /\ normOut = Null
    /\ normOut' = Some(processCSV(normIn[1], lenientDate))
    /\ UNCHANGED normIn

(* ------------------------ statement-text parsing ----------------------- *)
\* first position at or after i that holds no white space (Len + 1 if none)
RECURSIVE SkipWs(_, _)
SkipWs(s, i) ==
    IF i <= Len(s) /\ CharAt(s, i) \in WhiteSpace THEN SkipWs(s, i + 1) ELSE i

\* first position at or after i that holds white space (Len + 1 if none)
RECURSIVE SkipNonWs(_, _)
SkipNonWs(s, i) ==
    IF i <= Len(s) /\ CharAt(s, i) \notin WhiteSpace THEN SkipNonWs(s, i + 1) ELSE i

\* first position of the run without white space that ends at i
RECURSIVE BackNonWs(_, _)
BackNonWs(s, i) ==
    IF i >= 1 /\ CharAt(s, i) \notin WhiteSpace THEN BackNonWs(s, i - 1) ELSE i + 1

\* first position of the white-space run that ends at i
RECURSIVE BackWs(_, _)
BackWs(s, i) ==
    IF i >= 1 /\ CharAt(s, i) \in WhiteSpace THEN BackWs(s, i - 1) ELSE i + 1

\* \d{2}<sep>\d{2}<sep>\d{4} over the whole of s
MdyText(s, sep) ==
    /\ Len(s) = 10
    /\ AllDigits(SubSeq(s, 1, 2)) /\ CharAt(s, 3) = sep
    /\ AllDigits(SubSeq(s, 4, 5)) /\ CharAt(s, 6) = sep
    /\ AllDigits(SubSeq(s, 7, 10))

\* \d{4}-\d{2}-\d{2} over the whole of s
IsoText(s) ==
    /\ Len(s) = 10
    /\ AllDigits(SubSeq(s, 1, 4)) /\ CharAt(s, 5) = "-"
    /\ AllDigits(SubSeq(s, 6, 7)) /\ CharAt(s, 8) = "-"
    /\ AllDigits(SubSeq(s, 9, 10))

\* `${year}-${month.padStart(2, '0')}-${day.padStart(2, '0')}` of a
\* month, day, year text split at its separators
MdyToIso(dateStr) ==
    SubSeq(dateStr, 7, 10) \o "-" \o PadStart2(SubSeq(dateStr, 1, 2))
        \o "-" \o PadStart2(SubSeq(dateStr, 4, 5))

\* \$?[-]?\d+\.?\d* over the whole of s
LiliNumber(s) ==
    LET a == IF Len(s) > 0 /\ CharAt(s, 1) = "$" THEN Tail(s) ELSE s
        b == IF Len(a) > 0 /\ CharAt(a, 1) = "-" THEN Tail(a) ELSE a
        n == DigitRun(b)
        rest == SubSeq(b, n + 1, Len(b))
    IN /\ n >= 1
       /\ \/ rest = ""
          \/ CharAt(rest, 1) = "." /\ AllDigits(Tail(rest))

\* trimmed.match(txPattern): the date, the auth code after it, the last two
\* runs without white space as amount and balance, and as description the
\* text in between, which needs one character at least (a white-space one
\* when three or more of them separate the auth code from the amount)
LiliMatch(trimmed) ==
    LET n == Len(trimmed)
        authStart == SkipWs(trimmed, 11)
        authEnd == authStart + DigitRun(SubSeq(trimmed, authStart, n))
        descStart == SkipWs(trimmed, authEnd)
        balStart == BackNonWs(trimmed, n)
        amtEnd == BackWs(trimmed, balStart - 1)
        amtStart == BackNonWs(trimmed, amtEnd - 1)
        descEnd == BackWs(trimmed, amtStart - 1)
        amtText == SubSeq(trimmed, amtStart, amtEnd - 1)
        amountStr == IF Len(amtText) > 0 /\ CharAt(amtText, 1) = "$"
                     THEN Tail(amtText) ELSE amtText
        matched ==
            /\ n >= 10 /\ MdyText(SubSeq(trimmed, 1, 10), "/")
            /\ authStart > 11 /\ authEnd > authStart /\ descStart > authEnd
            /\ amtStart >= descStart /\ amtEnd > amtStart /\ balStart > amtEnd
            /\ LiliNumber(amtText)
            /\ LiliNumber(SubSeq(trimmed, balStart, n))
            /\ amtStart = descStart => amtStart - authEnd >= 3
    IN IF ~matched THEN Null
       ELSE Some([dateStr |-> SubSeq(trimmed, 1, 10),
                  authCode |-> SubSeq(trimmed, authStart, authEnd - 1),
                  description |-> IF amtStart = descStart
                                  THEN SubSeq(trimmed, amtStart - 2, amtStart - 2)
                                  ELSE SubSeq(trimmed, descStart, descEnd - 1),
                  amountStr |-> amountStr])

\* the transaction parseLiliStatementPDF pushes for one line, if any
LiliLine(line) ==
    LET match == LiliMatch(Trim(line))
    IN IF match = Null THEN <<>>
       ELSE <<[date |-> MdyToIso(match[1].dateStr),
               description |-> Trim(match[1].description),
               amount |-> ParseFloat(RemoveChars(match[1].amountStr, {"$", ","}))[1],
               authCode |-> match[1].authCode]>>

\* (?:,\d{3})*\.?\d{0,2} over the whole of s
RECURSIVE AmountTail(_)
AmountTail(s) ==
    \/ Len(s) <= 2 /\ AllDigits(s)
    \/ Len(s) >= 1 /\ CharAt(s, 1) = "." /\ Len(s) <= 3 /\ AllDigits(Tail(s))
    \/ Len(s) >= 4 /\ CharAt(s, 1) = "," /\ AllDigits(SubSeq(s, 2, 4))
         /\ AmountTail(SubSeq(s, 5, Len(s)))

\* \$?([-]?\d{1,3}(?:,\d{3})*\.?\d{0,2}) over the whole of s
AmountToken(s) ==
    LET a == IF Len(s) > 0 /\ CharAt(s, 1) = "$" THEN Tail(s) ELSE s
        b == IF Len(a) > 0 /\ CharAt(a, 1) = "-" THEN Tail(a) ELSE a
    IN \E k \in 1..3 :
          /\ k <= Len(b) /\ AllDigits(SubSeq(b, 1, k))
          /\ AmountTail(SubSeq(b, k + 1, Len(b)))

\* trimmed.match(/.../g) from position p on: the pattern holds no white
\* space and must be followed by white space or the end, so a match that
\* starts at p runs to the next white space and takes it along; the search
\* goes on after the match, or one position further when there is none
RECURSIVE AmountMatches(_, _)
AmountMatches(trimmed, p) ==
    IF p > Len(trimmed) THEN <<>>
    ELSE LET q == SkipNonWs(trimmed, p)
         IN IF q > p /\ AmountToken(SubSeq(trimmed, p, q - 1))
            THEN <<SubSeq(trimmed, p, IF q <= Len(trimmed) THEN q ELSE q - 1)>>
                    \o AmountMatches(trimmed, q + 1)
            ELSE AmountMatches(trimmed, p + 1)

\* String.prototype.lastIndexOf, counted from 0; -1 when sub is not in s
LastIndexOf(s, sub) ==
    LET at == {i \in 0..(Len(s) - Len(sub)) : SubSeq(s, i + 1, i + Len(sub)) = sub}
    IN IF at = {} THEN 0 - 1 ELSE CHOOSE i \in at : \A j \in at : j <= i

\* String.prototype.substring, indices counted from 0: both are clamped to
\* the string and swapped when the first is the larger
Substring(s, from, to) ==
    LET Clamp(i) == IF i < 0 THEN 0 ELSE IF i > Len(s) THEN Len(s) ELSE i
        lo == IF Clamp(from) <= Clamp(to) THEN Clamp(from) ELSE Clamp(to)
        hi == IF Clamp(from) <= Clamp(to) THEN Clamp(to) ELSE Clamp(from)
    IN SubSeq(s, lo + 1, hi)

\* description.replace(/^\d+\s+/, '')
StripAuthCode(description) ==
    LET n == DigitRun(description)
    IN IF n >= 1 /\ n < Len(description) /\ CharAt(description, n + 1) \in WhiteSpace
       THEN SubSeq(description, SkipWs(description, n + 1), Len(description))
       ELSE description

\* the date patterns of the generic pass, in the order they are tried
datePatterns == <<"MM/DD/YYYY", "YYYY-MM-DD", "MM-DD-YYYY">>

\* trimmed.match(pattern): the date text at the start of the line
DateMatch(trimmed, pattern) ==
    LET head == SubSeq(trimmed, 1, 10)
        ok == CASE pattern = "MM/DD/YYYY" -> MdyText(head, "/")
                [] pattern = "YYYY-MM-DD" -> IsoText(head)
                [] pattern = "MM-DD-YYYY" -> MdyText(head, "-")
    IN IF Len(trimmed) >= 10 /\ ok THEN Some(head) ELSE Null

\* variant of GenericMatched that pushes without looking at the description
GenericMatched_NoCheck(trimmed, dateStr) ==
    LET amountMatch == AmountMatches(trimmed, 1)
        amountStartIdx == LastIndexOf(trimmed, amountMatch[Len(amountMatch)])
    IN IF Len(amountMatch) = 0 THEN <<>>
       ELSE <<[date |-> dateStr,
               description |->
                   Trim(StripAuthCode(Trim(Substring(trimmed, Len(dateStr), amountStartIdx)))),
               amount |-> ParseFloat(RemoveChars(amountMatch[1], {"$", ","} \cup WhiteSpace))[1]]>>

\* the body of the pattern loop for the first pattern that matches
GenericMatched(trimmed, dateStr) ==
    LET amountMatch == AmountMatches(trimmed, 1)
        formattedDate ==
            IF \E i \in 1..Len(dateStr) : CharAt(dateStr, i) = "/" THEN MdyToIso(dateStr)
            ELSE IF MdyText(dateStr, "-") THEN MdyToIso(dateStr)
            ELSE dateStr
        amountStr == RemoveChars(amountMatch[1], {"$", ","} \cup WhiteSpace)
        amount == ParseFloat(amountStr)
        dateEndIdx == Len(dateStr)
        amountStartIdx == LastIndexOf(trimmed, amountMatch[Len(amountMatch)])
        description ==
            Trim(StripAuthCode(Trim(Substring(trimmed, dateEndIdx, amountStartIdx))))
    IN IF Len(amountMatch) = 0 THEN <<>>
       ELSE IF description # "" /\ amount # Null
       THEN <<[date |-> formattedDate, description |-> description, amount |-> amount[1]]>>
       ELSE <<>>

\* the transaction parseGenericStatementPDF pushes for one line, if any
GenericLine(line) ==
    LET trimmed == Trim(line)
        hits == {k \in 1..Len(datePatterns) : DateMatch(trimmed, datePatterns[k]) # Null}
    IN IF hits = {} THEN <<>>
       ELSE LET first == CHOOSE k \in hits : \A j \in hits : k <= j
            IN GenericMatched(trimmed, DateMatch(trimmed, datePatterns[first])[1])

\* the statement lines the parse requests are made of
ExampleLine == "01/08/2026 4721 AMAZON.COM MARKETPLACE 45.99 1,204.33"
LinePool ==
    {ExampleLine,
     "01/08/2026 4721 AMAZON.COM MARKETPLACE 45.99 1204.33",
     "01/09/2026 88 COFFEE $-3.50 $1200.83",
     "  01/12/2026 7 RENT 900 300  ",
     "01/13/2026 55   12.00 88.00",
     "2026-01-10 PAYROLL DEPOSIT 2,500.00",
     "01-11-2026 REFUND 12.00",
     "01/14/2026: FEE 1.00",
     "01/15/2026 9.00",
     "Statement period January 2026",
     ""}

\* both parsers' work on each line of the pool
LiliOf == [line \in LinePool |-> LiliLine(line)]
GenericOf == [line \in LinePool |-> GenericLine(line)]

\* text.split('\n') is the sequence of lines; one pass over them
RECURSIVE parseLiliStatementPDF(_)
parseLiliStatementPDF(lines) ==
    IF Len(lines) = 0 THEN <<>>
    ELSE LiliOf[lines[1]] \o parseLiliStatementPDF(Tail(lines))

RECURSIVE parseGenericStatementPDF(_)
parseGenericStatementPDF(lines) ==
    IF Len(lines) = 0 THEN <<>>
    ELSE GenericOf[lines[1]] \o parseGenericStatementPDF(Tail(lines))

\* variant of NeedsFallback that always asks for the generic pass
NeedsFallback_Always(transactions) == TRUE

\* transactions.length === 0
NeedsFallback(transactions) == Len(transactions) = 0

\* the statement texts of a request, and the request without a file
StatementTexts == UNION {[1..n -> LinePool] : n \in 0..MaxLines}
PdfRequests == {Null} \cup {Some(text) : text \in StatementTexts}

\* POST /api/parse-pdf: the answer, with the passes that ran
parsePdf ==
    /\ normOut = Null
    /\ normOut' =
          IF normIn = Null
          THEN Some([status |-> 400, transactions |-> <<>>, passes |-> <<>>])
          ELSE LET lili == parseLiliStatementPDF(normIn[1])
                   fallback == NeedsFallback(lili)
               IN Some([status |-> 200,
                        transactions |-> IF fallback
                                         THEN parseGenericStatementPDF(normIn[1])
                                         ELSE lili,
                        passes |-> IF fallback THEN <<"lili", "generic">>
                                   ELSE <<"lili">>])
    /\ UNCHANGED normIn

(* ----------------------- dialog and server together -------------------- *)
\* the request of the dialog is the first of the server's two
DialogBatch == 1

\* the files uploaded in a session: the first header row and a run of data
\* rows that starts at one of the first two rows of the pool
SessionFiles ==
    {<<HeaderRowPool[1]>> \o SubSeq(DataRowPool, from, from + n - 1) :
        from \in 1..2, n \in 0..MaxDataRows}

\* mutationFn: apiRequest("POST", "/api/transactions/bulk", { transactions })
\* hands the body to a new run of the route's handler
apiRequestBulk ==
    /\ importMutate
    /\ reqBody' = [reqBody EXCEPT ![DialogBatch] = request']
    /\ pc' = [pc EXCEPT ![DialogBatch] = "idle"]
    /\ idx' = [idx EXCEPT ![DialogBatch] = 0]
    /\ imported' = [imported EXCEPT ![DialogBatch] = <<>>]
    /\ errors' = [errors EXCEPT ![DialogBatch] = <<>>]
    /\ account' = [account EXCEPT ![DialogBatch] = Null]
    /\ lastError' = [lastError EXCEPT ![DialogBatch] = Null]
    /\ UNCHANGED <<balance, txTable, faults>>

\* the handler's steps for the dialog's request, while it is outstanding; the
\* bodies mutationFn builds carry accountId and never account_id, so that
\* the insert of createTransaction is rejected for each of them
bulkStep ==
    /\ pending
    /\ \/ bulkReceive(DialogBatch)
       \/ createTransactionInsertRejected(DialogBatch)
    /\ UNCHANGED dialogVars

\* the 201 response reaches the dialog: apiRequest resolves, onSuccess runs
bulkResponse ==
    /\ pc[DialogBatch] = "done"
    /\ importOnSuccess
    /\ UNCHANGED serverVars

\* the request fails before the handler has run (fetch rejects): onError runs
bulkRequestFailed ==
    /\ pc[DialogBatch] = "idle"
    /\ importOnError
    /\ UNCHANGED serverVars

(* --------------------------- specifications ---------------------------- *)
\* the import dialog alone; the server's answer arrives as success or error
Init ==
    /\ DialogInit
    /\ lenientDate \in BOOLEAN
    /\ reqBody = [b \in Batches |-> <<>>]
    /\ ServerInit
    /\ NormInit

Next ==
    /\ \/ \E data \in Files : handleFileUpload(data)
       \/ handleHeaderToggle(~hasHeaders)
       \/ \E role \in Roles : \E v \in SelectChoices(role) : setMapping(role, v)
       \/ \E v \in AccountIds : setSelectedAccountId(v)
       \/ backToUpload
       \/ handleMappingComplete
       \/ backToMapping
       \/ importMutate
       \/ importOnSuccess
       \/ importOnError
    /\ UNCHANGED <<serverVars, normVars>>

Spec == Init /\ [][Next]_vars

\* two bulk requests handled concurrently by the server
InitBulk ==
    /\ DialogInit
    /\ lenientDate = FALSE
    /\ reqBody \in [Batches -> Requests]
    /\ ServerInit
    /\ NormInit

NextBulk ==
    /\ \E b \in Batches :
          \/ bulkReceive(b)
          \/ createTransactionInsert(b)
          \/ createTransactionInsertError(b)
          \/ createTransactionGetAccount(b)
          \/ createTransactionGetAccountError(b)
          \/ createTransactionUpdate(b)
          \/ createTransactionUpdateError(b)
    /\ UNCHANGED <<dialogVars, normVars>>

SpecBulk == InitBulk /\ [][NextBulk]_vars

\* the amount normalizer applied to every short string
InitNorm ==
    /\ DialogInit
    /\ lenientDate = FALSE
    /\ reqBody = [b \in Batches |-> <<>>]
    /\ ServerInit
    /\ normIn \in AmountInputs
    /\ normOut = Null

NextNorm ==
    /\ applyParseAmount
    /\ UNCHANGED <<dialogVars, serverVars>>

SpecNorm == InitNorm /\ [][NextNorm]_vars

(* ------------------------- bulk commit properties ---------------------- *)
\* the sum of the amount fields of a sequence of records
RECURSIVE SumAmounts(_)
SumAmounts(txs) ==
    IF Len(txs) = 0 THEN 0 ELSE txs[1].amount + SumAmounts(Tail(txs))

\* every amount of the request is a whole number of cents
WholeCents(txs) == \A i \in 1..Len(txs) : Numeric2(txs[i].amount) = txs[i].amount

\* C1: when two concurrent batches against the same account have both run to
\* the end without any storage failure, the balance is the initial balance
\* plus the sum of all their amounts (amounts in whole cents, so that no
\* rounding is involved).
C1_NoLostUpdate ==
    ( /\ \A b \in Batches : pc[b] = "done" /\ WholeCents(reqBody[b])
      /\ faults = 0 )
    => balance = InitialBalance + SumAmounts(reqBody[1]) + SumAmounts(reqBody[2])

\* C2: with no concurrent writer (the other request carries no transaction),
\* after the bulk commit the balance is the balance before it plus the sum of
\* the amounts of the transactions the commit persisted.
C2_BalanceMatchesPersisted ==
    (Len(reqBody[2]) = 0 /\ pc[1] = "done")
    => balance = InitialBalance + SumAmounts(txTable)

\* C3: every row is attempted once in index order, imported + errors counts
\* the rows attempted (all n at the end), error entries are in increasing
\* index order, and the entry of the row that failed last carries the message
\* of the error that was thrown for it.
C3_RowsIndependent ==
    \A b \in Batches :
        /\ Len(imported[b]) + Len(errors[b]) = idx[b]
        /\ pc[b] = "done" => idx[b] = Len(reqBody[b])
        /\ \A k \in 1..Len(errors[b]) :
              /\ errors[b][k].index < idx[b]
              /\ k > 1 => errors[b][k - 1].index < errors[b][k].index
        /\ lastError[b] # Null =>
              /\ errors[b][Len(errors[b])].index = idx[b] - 1
              /\ errors[b][Len(errors[b])].error = lastError[b][1].message

(* -------------------------- normalizer properties ---------------------- *)
\* C10: parseAmount of the empty string, and of an absent (null/undefined)
\* input, is null.
C10_EmptyAmountFails ==
    (normOut # Null /\ normIn \in {Null, Some("")}) => normOut[1] = Null

(* ---------------------------- dialog properties ------------------------ *)
\* the cell of a row that a mapped column name selects, trimmed
MappedCell(row, name) == CellAt(row, IndexOf(headers, name))

\* the rows of csvData as Continue parses them, before the zero-amount filter
AllParsed ==
    [i \in 1..Len(csvData) |-> ParseRow(csvData[i], headers, mapping, lenientDate)]

\* in the preview step the candidate list is the one Continue computed from
\* the current headers, data rows and mapping (nothing edits them there)
InPreview == step = "preview"

\* C4: every transaction of a bulk-import request the dialog issues comes from
\* a parsed row whose validity flag is true, and the request has one
\* transaction per valid row.
C4_OnlyValidSent ==
    request # <<>> =>
        /\ Len(request) = validCount
        /\ \A i \in 1..Len(request) :
              \E j \in 1..Len(parsedRows) :
                  /\ parsedRows[j].isValid
                  /\ request[i] = ToTransaction(parsedRows[j], selectedAccountId)

\* a request was issued from a candidate list that also holds invalid rows,
\* in a session in which Back was pressed before
C4_Witness == request # <<>> /\ invalidCount > 0 /\ backs > 0

\* C5: every candidate row comes from a data row, and its validity flag is
\* true exactly when it has no failure reason and the date, the trimmed
\* description and the amount of that data row were all normalized.
C5_ValidIffNormalized ==
    InPreview =>
        \A j \in 1..Len(parsedRows) :
            /\ \E i \in 1..Len(csvData) : parsedRows[j] = AllParsed[i]
            /\ \A i \in 1..Len(csvData) :
                  parsedRows[j] = AllParsed[i] =>
                      ( parsedRows[j].isValid <=>
                          /\ parsedRows[j].error = Null
                          /\ DateCell(MappedCell(csvData[i], mapping.date), lenientDate) # Null
                          /\ MappedCell(csvData[i], mapping.description) # ""
                          /\ AmountCell(MappedCell(csvData[i], mapping.amount)) # Null )

\* the candidate list holds a valid row and an invalid one
C5_Witness == step = "preview" /\ validCount > 0 /\ invalidCount > 0

\* C6: the candidate list holds no valid row of amount zero, and its invalid
\* rows are all the invalid rows of the data, in the order of the data.
C6_ZeroAmountFilter ==
    InPreview =>
        /\ \A j \in 1..Len(parsedRows) :
              ~(parsedRows[j].isValid /\ parsedRows[j].amount = 0)
        /\ SelectSeq(parsedRows, IsInvalidRow) = SelectSeq(AllParsed, IsInvalidRow)

\* a valid zero-amount row was dropped and an invalid zero-amount row kept
C6_Witness ==
    /\ step = "preview"
    /\ \E i \in 1..Len(csvData) : AllParsed[i].isValid /\ AllParsed[i].amount = 0
    /\ \E j \in 1..Len(parsedRows) : ~parsedRows[j].isValid /\ parsedRows[j].amount = 0

\* a required mapping or the account selection is missing
MissingRequired ==
    mapping.date = "" \/ mapping.description = "" \/ mapping.amount = ""
    \/ selectedAccountId = ""

\* C7: while a required mapping or the account is missing, no step of the
\* dialog enters 'preview' or changes the candidate list, and every step
\* other than Back and the end of a pending import (Continue in particular)
\* leaves the wizard at 'mapping'.
C7_ContinueNeedsMapping ==
    [][ (step = "mapping" /\ MissingRequired) =>
            /\ step' # "preview"
            /\ parsedRows' = parsedRows
            /\ (backs' = backs /\ pending' = pending) => step' = "mapping" ]_vars

\* the mapping step with a required field missing and an earlier candidate
\* list still in place
C7_Witness == step = "mapping" /\ MissingRequired /\ parsedRows # <<>>

\* C8: after an upload of a file whose first row is not blank and any toggles
\* of 'First row is header': with the switch on, the headers are the file's
\* first row (blank names replaced, names trimmed) and the data rows are the
\* file's other non-blank rows; with it off, the headers are 'Column 1' ..
\* 'Column k' and the data rows are all the file's non-blank rows, the first
\* row first.
C8_ToggleKeepsBoundary ==
    (step = "mapping" /\ Len(fileData) > 0 /\ RowHasText(fileData[1])) =>
        IF hasHeaders
        THEN /\ headers = SanitizeHeaders(fileData[1])
             /\ csvData = NonBlankRows(Tail(fileData))
        ELSE /\ headers = generateColumnNames(Len(fileData[1]))
             /\ csvData = NonBlankRows(fileData)

\* the reasons a data row should carry: a date that is not normalized, a
\* blank description, an amount cell that is empty or not numeric
ExpectedReasons(row) ==
    (IF DateCell(MappedCell(row, mapping.date), lenientDate) = Null
     THEN <<"Invalid date">> ELSE <<>>)
    \o (IF MappedCell(row, mapping.description) = ""
        THEN <<"Missing description">> ELSE <<>>)
    \o (IF MappedCell(row, mapping.amount) = ""
           \/ AmountCell(MappedCell(row, mapping.amount)) = Null
        THEN <<"Invalid amount">> ELSE <<>>)

\* the row's amount cell is a written zero
HasZeroAmount(row) ==
    /\ MappedCell(row, mapping.amount) # ""
    /\ AmountCell(MappedCell(row, mapping.amount)) = Some(0)

FailsRequired(row) == Len(ExpectedReasons(row)) > 0
ReasonText(row) == Some(Join(ExpectedReasons(row)))

\* C9: in the preview of n non-blank data rows, none with a zero amount, of
\* which k fail a required field: validCount = n - k, invalidCount = k, the
\* invalid candidates are the failing rows in order, each with its reasons
\* joined in the order date, description, amount, and the valid candidates
\* carry no reason.
C9_CountsAndReasons ==
    ( /\ step = "preview"
      /\ \A i \in 1..Len(csvData) : RowHasText(csvData[i]) /\ ~HasZeroAmount(csvData[i]) )
    => LET failing == SelectSeq(csvData, FailsRequired)
           invalid == SelectSeq(parsedRows, IsInvalidRow)
       IN /\ validCount = Len(csvData) - Len(failing)
          /\ invalidCount = Len(failing)
          /\ [j \in 1..Len(invalid) |-> invalid[j].error]
                = [j \in 1..Len(failing) |-> ReasonText(failing[j])]
          /\ \A j \in 1..Len(parsedRows) :
                parsedRows[j].isValid => parsedRows[j].error = Null

\* C11: parseAmount of "0" and of "0.0" is the number 0, not null.
C11_ZeroIsZero ==
    (normOut # Null /\ normIn \in {Some("0"), Some("0.0")}) => normOut[1] = Some(0)

\* parseAmount was applied to "0.0" and gave 0
C11_Witness == normIn = Some("0.0") /\ normOut = Some(Some(0))

\* digits with at most one ".", at least one digit
UnsignedNumeric(s) ==
    /\ HasDigit(s)
    /\ \A i \in 1..Len(s) : CharAt(s, i) \in Digits \cup {"."}
    /\ Cardinality({i \in 1..Len(s) : CharAt(s, i) = "."}) <= 1

\* the value of an unsigned numeric text, in thousandths
UnsignedValue(s) ==
    LET dot == IndexFrom(s, ".", 1)
        whole == IF dot = 0 THEN s ELSE SubSeq(s, 1, dot - 1)
        frac == IF dot = 0 THEN "" ELSE SubSeq(s, dot + 1, Len(s))
    IN 1000 * DigitsToNat(whole) + DigitsToNat(SubSeq(frac \o "000", 1, 3))

\* the amount text without currency symbols, commas and white space
Stripped(s) == RemoveChars(s, StripSet)

InitDate ==
    /\ DialogInit
    /\ lenientDate \in BOOLEAN
    /\ reqBody = [b \in Batches |-> <<>>]
    /\ ServerInit
    /\ normIn \in {Some(s) : s \in DateInputs}
    /\ normOut = Null

NextDate ==
    /\ \/ applyParseDate
       \/ applyParseDateAgain
    /\ UNCHANGED <<dialogVars, serverVars>>

SpecDate == InitDate /\ [][NextDate]_vars

\* text of the form YYYY-MM-DD
IsIsoDate(s) == Len(s) = 10 /\ IsoPrefix(s)

\* text in one of the three recognized formats: YYYY-MM-DD followed by white
\* space, YYYY-MM-DD alone, M/D/YYYY
RecognizedDate(s) ==
    \/ IsoPrefix(s) /\ Len(s) >= 11 /\ CharAt(s, 11) \in WhiteSpace
    \/ IsIsoDate(s)
    \/ MdyMatch(s) # Null

\* C13: for a date text in a recognized format parseDate returns a date of
\* the form YYYY-MM-DD, and parseDate of that date is the same date.
C13_DateIdempotent ==
    (normOut # Null /\ RecognizedDate(normIn[1])) =>
        /\ normOut[1] # Null
        /\ IsIsoDate(normOut[1][1])
        /\ Len(normOut) = 2 => normOut[2] = normOut[1]

\* parseDate reformatted a M/D/YYYY text and was applied to its result
C13_Witness ==
    normIn = Some("1/8/2026") /\ Len(normOut) = 2 /\ normOut[2] = Some("2026-01-08")

\* header detection and mapping inference applied to a parsed file
InitHeader ==
    /\ DialogInit
    /\ lenientDate \in BOOLEAN
    /\ reqBody = [b \in Batches |-> <<>>]
    /\ ServerInit
    /\ normIn \in {Some(data) : data \in HeaderFiles}
    /\ normOut = Null

NextHeader ==
    /\ applyProcessCSV
    /\ UNCHANGED <<dialogVars, serverVars>>

SpecHeader == InitHeader /\ [][NextHeader]_vars

\* the header keywords, and the cells of a row that contain one
HeaderKeywords == {"timestamp", "date", "amount", "description", "merchant",
                   "transaction", "type", "status", "note", "memo", "currency"}
KeywordCells(row) ==
    {i \in 1..Len(row) : \E w \in HeaderKeywords : Includes(ToLower(row[i]), w)}

\* C14: on upload the first row is taken as a header row exactly when at
\* least two of its cells contain a header keyword, whatever the case of the
\* letters; when it is not, the headers are 'Column 1' .. 'Column k' and the
\* data rows are all the non-blank rows of the file, the first row included.
C14_HeaderDetection ==
    normOut # Null =>
        LET data == normIn[1]
            first == data[1]
            out == normOut[1]
        IN /\ out.hasHeaders <=> Cardinality(KeywordCells(first)) >= 2
           /\ first = <<"Date", "Description", "Amount">> => out.hasHeaders
           /\ first = <<"A", "B", "C">> => ~out.hasHeaders
           /\ ~out.hasHeaders =>
                 /\ out.headers = [i \in 1..Len(first) |-> "Column " \o ToString(i)]
                 /\ out.csvData = NonBlankRows(data)
                 /\ RowHasText(first) => out.csvData[1] = first

\* a first row with exactly one keyword cell was kept as data
C14_Witness ==
    /\ normOut # Null
    /\ Cardinality(KeywordCells(normIn[1][1])) = 1
    /\ ~normOut[1].hasHeaders
    /\ normOut[1].csvData[1] = normIn[1][1]

\* the cells of a header row that contain a keyword of the role
RoleCells(row, words) ==
    {i \in 1..Len(row) : \E w \in words : Includes(Trim(ToLower(row[i])), w)}

\* the header the role should get: the leftmost matching one, "" if none
LeftmostMatch(row, words) ==
    IF RoleCells(row, words) = {} THEN ""
    ELSE row[CHOOSE i \in RoleCells(row, words) : \A j \in RoleCells(row, words) : i <= j]

C15_CategoryFromSign ==
    request # <<>> =>
        LET valid == SelectSeq(parsedRows, IsValidRow)
        IN /\ Len(request) = Len(valid)
           /\ \A i \in 1..Len(request) :
                 /\ request[i].category =
                        (IF valid[i].amount < 0 THEN "expense" ELSE "income")
                 /\ request[i].amount = valid[i].amount
                 /\ request[i].subcategory = valid[i].category
                 /\ mapping.category = "" => request[i].subcategory = "Other"

\* a request carries an expense with the default label 'Other'
C15_Witness ==
    /\ request # <<>>
    /\ \E i \in 1..Len(request) :
          /\ request[i].amount < 0
          /\ request[i].category = "expense"
          /\ request[i].subcategory = "Other"

\* C18: in the preview step every candidate comes from a data row, and no
\* data row is blank: a row whose cells are all blank is not in the candidate
\* list, whatever was uploaded and however often the header switch was used.
C18_NoBlankCandidates ==
    InPreview =>
        /\ \A i \in 1..Len(csvData) : RowHasText(csvData[i])
        /\ \A j \in 1..Len(parsedRows) :
              \E i \in 1..Len(csvData) : parsedRows[j] = AllParsed[i]

\* the preview of a file that held a blank row, reached with the header
\* switch set against what was detected on upload
C18_Witness ==
    /\ step = "preview"
    /\ \E i \in 1..Len(fileData) : ~RowHasText(fileData[i])
    /\ hasHeaders # detectIfHasHeaders(fileData[1])
    /\ parsedRows # <<>>

\* the balance after the updates of the given rows, applied one by one
RECURSIVE BalanceAfter(_, _)
BalanceAfter(start, txs) ==
    IF Len(txs) = 0 THEN start
    ELSE BalanceAfter(ToFixed2(start + txs[1].amount), Tail(txs))

\* the amounts of xs appear in ys in the same order
RECURSIVE IsSubsequence(_, _)
IsSubsequence(xs, ys) ==
    IF Len(xs) = 0 THEN TRUE
    ELSE IF Len(ys) = 0 THEN FALSE
    ELSE IF Numeric2(xs[1].amount) = ys[1].amount /\ xs[1].description = ys[1].description
         THEN IsSubsequence(Tail(xs), Tail(ys))
         ELSE IsSubsequence(xs, Tail(ys))

\* C20: with one batch at work, at every point of the batch and at its end,
\* each row imported so far still has its record in the transactions table
\* and its amount in the balance, whatever failed in between.
C20_NoRollback ==
    Len(reqBody[2]) = 0 =>
        /\ IsSubsequence(imported[1], txTable)
        /\ balance = BalanceAfter(InitialBalance, imported[1])

\* a batch ended after an imported row was followed by a failed one
C20_Witness ==
    /\ Len(reqBody[2]) = 0
    /\ pc[1] = "done"
    /\ Len(imported[1]) = 1
    /\ Len(errors[1]) = 1 /\ errors[1][1].index = 1

\* one parse request for a statement text
InitPdf ==
    /\ DialogInit
    /\ lenientDate = FALSE
    /\ reqBody = [b \in Batches |-> <<>>]
    /\ ServerInit
    /\ normIn \in PdfRequests
    /\ normOut = Null

NextPdf ==
    /\ parsePdf
    /\ UNCHANGED <<dialogVars, serverVars>>

SpecPdf == InitPdf /\ [][NextPdf]_vars

\* C16: once a statement text is answered, the generic pass has run exactly
\* when the institution-specific pass found no transaction; when that pass
\* found one or more, the answer is its output and nothing else.
C16_FallbackOnlyWhenEmpty ==
    (normIn # Null /\ normOut # Null) =>
        LET specific == parseLiliStatementPDF(normIn[1])
        IN /\ ("generic" \in Range(normOut[1].passes)) <=> (Len(specific) = 0)
           /\ Len(specific) > 0 => normOut[1].transactions = specific

\* an answered text where the specific pass found a transaction and the
\* generic pass would have found one that the specific pass did not
C16_Witness ==
    /\ normIn # Null /\ normOut # Null
    /\ Len(parseLiliStatementPDF(normIn[1])) > 0
    /\ \E t \in Range(parseGenericStatementPDF(normIn[1])) :
          t \notin Range(parseLiliStatementPDF(normIn[1]))
    /\ "generic" \notin Range(normOut[1].passes)

\* C17: the text made of the line
\* "01/08/2026 4721 AMAZON.COM MARKETPLACE 45.99 1,204.33" is answered with
\* the one transaction dated 2026-01-08, described "AMAZON.COM MARKETPLACE",
\* of amount 45.99.
C17_GenericExample ==
    (normIn = Some(<<ExampleLine>>) /\ normOut # Null) =>
        normOut[1].transactions =
            <<[date |-> "2026-01-08", description |-> "AMAZON.COM MARKETPLACE",
               amount |-> 45990]>>

\* C26: with one batch at work, the response's imported count is the number
\* of transaction records the batch persisted, and the rows in its error
\* list are the rows for which no record was persisted.
C26_ResponseCountsPersisted ==
    (Len(reqBody[2]) = 0 /\ pc[1] = "done") =>
        /\ Response(1).imported = Len(txTable)
        /\ Response(1).errors = Len(reqBody[1]) - Len(txTable)

\* C25: whatever toggles of 'First row is header' followed the upload, every
\* data row in the mapping step is, cell for cell, a row of the parsed file.
C25_ToggleKeepsCellText ==
    (step = "mapping" /\ Len(fileData) > 0) =>
        \A i \in 1..Len(csvData) :
            \E j \in 1..Len(fileData) : csvData[i] = fileData[j]

\* C24: every role the mapping inferred on upload assigns names one of the
\* headers set by the same upload, so that headers.indexOf finds its column.
C24_AutoMappingNamesHeaders ==
    normOut # Null =>
        \A role \in Roles :
            normOut[1].mapping[role] # "" =>
                IndexOf(normOut[1].headers, normOut[1].mapping[role]) >= 1

\* what the pass that produced the answer makes of one line on its own
LineResult(line, passes) ==
    IF "generic" \in Range(passes)
    THEN parseGenericStatementPDF(<<line>>) ELSE parseLiliStatementPDF(<<line>>)

\* the per-line results of a text, one after the other in line order
RECURSIVE InLineOrder(_, _)
InLineOrder(lines, passes) ==
    IF Len(lines) = 0 THEN <<>>
    ELSE LineResult(lines[1], passes) \o InLineOrder(Tail(lines), passes)

\* C30: the answer to a statement text holds, in line order, what each line
\* yields on its own, which is one transaction at most; a line that yields
\* none changes nothing for the others; and every transaction of the generic
\* pass has a description that is not empty and an amount that is a number.
C30_LineOrderAndSkips ==
    (normIn # Null /\ normOut # Null) =>
        /\ normOut[1].transactions = InLineOrder(normIn[1], normOut[1].passes)
        /\ \A i \in 1..Len(normIn[1]) :
              Len(LineResult(normIn[1][i], normOut[1].passes)) <= 1
        /\ "generic" \in Range(normOut[1].passes) =>
              \A i \in 1..Len(normOut[1].transactions) :
                  /\ normOut[1].transactions[i].description # ""
                  /\ normOut[1].transactions[i].amount \in Int

\* the generic pass answered a two-line text whose first line starts with a
\* date and holds an amount but no description, and whose second line yields
\* a transaction
C30_Witness ==
    /\ normIn # Null /\ normOut # Null
    /\ Len(normIn[1]) = 2
    /\ normIn[1][1] = "01/15/2026 9.00"
    /\ "generic" \in Range(normOut[1].passes)
    /\ Len(normOut[1].transactions) = 1
    /\ normOut[1].transactions[1].date = "2026-01-10"

\* the candidate list that processing the current data rows with the current
\* headers and mapping gives from scratch
FromScratch == SelectSeq(AllParsed, KeepRow)

\* C22: Continue leaves the header list, the data rows and the parsed file as
\* they are, and the candidate list it sets is the one that processing the
\* data rows with the mapping of that moment gives from scratch, whatever
\* candidate list an earlier Continue had set.
C22_RerunWithoutReparse ==
    [][ (step = "mapping" /\ step' = "preview") =>
            /\ headers' = headers /\ csvData' = csvData /\ fileData' = fileData
            /\ mapping' = mapping
            /\ parsedRows' = FromScratch ]_vars

\* a preview reached again after Back and a change of the category column,
\* with candidates that carry the newly mapped category
C22_Witness ==
    /\ step = "preview" /\ backs > 0 /\ mapping.category # ""
    /\ parsedRows # <<>> /\ parsedRows[1].category # "Other"

\* C23: a bulk-import request is issued only in the preview step, with at
\* least one valid row counted there, and the preview step is entered only
\* from the mapping step by a Continue that found the mapping complete.
C23_SummaryBeforeCommit ==
    [][ /\ (~pending /\ pending') =>
              (open /\ step = "preview" /\ step' = "preview" /\ validCount > 0
               /\ Len(request') = validCount)
        /\ (step # "preview" /\ step' = "preview") =>
              (step = "mapping" /\ ~MissingRequired) ]_vars

\* a request is pending in a first preview that counts valid and invalid rows
C23_Witness ==
    /\ pending /\ step = "preview" /\ backs = 0
    /\ validCount > 0 /\ invalidCount > 0 /\ Len(request) = validCount

(* ------------------------- session specification ----------------------- *)
\* one page with the import dialog, the bulk route behind it and a statement
\* text waiting to be parsed
InitSession ==
    /\ DialogInit
    /\ lenientDate = FALSE
    /\ reqBody = [b \in Batches |-> <<>>]
    /\ ServerInit
    /\ normIn = Some(<<ExampleLine>>)
    /\ normOut = Null

NextSession ==
    \/ /\ \/ \E data \in SessionFiles : handleFileUpload(data)
          \/ handleHeaderToggle(~hasHeaders)
          \/ \E role \in Roles : \E v \in SelectChoices(role) : setMapping(role, v)
          \/ \E v \in AccountIds : setSelectedAccountId(v)
          \/ backToUpload
          \/ handleMappingComplete
          \/ backToMapping
          \/ dismissDialog
          \/ closeComplete
          \/ openDialog
       /\ UNCHANGED <<serverVars, normVars>>
    \/ apiRequestBulk /\ UNCHANGED normVars
    \/ bulkStep /\ UNCHANGED normVars
    \/ bulkResponse /\ UNCHANGED normVars
    \/ bulkRequestFailed /\ UNCHANGED normVars
    \/ parsePdf /\ UNCHANGED <<dialogVars, serverVars>>

SpecSession == InitSession /\ [][NextSession]_vars

(* --------------------------- session properties ------------------------ *)
\* C21: a step of a parsing stage (upload, header toggle, mapping edit,
\* Continue, Back, closing and opening the dialog, the statement-text parse)
\* leaves the balance and the stored transactions as they are, and the bulk
\* route is handed a request only by the Import button of the preview step.
C21_ParsingLeavesStoreAlone ==
    [][ /\ ((dialogVars' # dialogVars \/ normVars' # normVars) /\ reqBody' = reqBody)
            => (balance' = balance /\ txTable' = txTable)
        /\ reqBody' # reqBody =>
              (step = "preview" /\ step' = "preview" /\ balance' = balance
               /\ txTable' = txTable) ]_vars

\* after an upload, a toggle, a Continue, a Back and a statement-text parse
\* the store is what it was
C21_Witness ==
    /\ step = "mapping" /\ ~hasHeaders /\ backs > 0 /\ parsedRows # <<>>
    /\ normOut # Null
    /\ balance = InitialBalance /\ txTable = <<>>

\* C27: on the completion screen of an answered import the count shown, the
\* number of valid candidate rows, is the number of transactions the bulk
\* commit imported.
C27_CompleteCountIsImported ==
    (open /\ step = "complete" /\ ~pending /\ pc[DialogBatch] = "done") =>
        validCount = Response(DialogBatch).imported

\* the states resetState leaves behind
SessionIsFresh ==
    /\ step = "upload" /\ headers = <<>> /\ csvData = <<>>
    /\ mapping = EmptyMapping /\ parsedRows = <<>> /\ selectedAccountId = ""

\* C28: whenever the dialog is opened again it shows the upload step with no
\* headers, data rows, mapping, candidates or account left from before.
C28_ReopenedIsFresh ==
    [][ (~open /\ open') => SessionIsFresh' ]_vars

====
